---- MODULE Spec2Model ----
(***************************************************************************)
(* Feeling-lucky query expansion (package jobutil): NewFeelingLuckySearchJob, *)
(* applyRulesList, applyRules and the unquotePatterns rule.                *)
(*                                                                         *)
(* A Basic is [parameters, pattern]: a sequence of parameter nodes and a   *)
(* sequence of pattern leaves.  Strings are sequences of characters; the   *)
(* characters that matter to the parser are named: "dq" is the double      *)
(* quote, "bs" the backslash, "lp" an opening parenthesis, "sl" a slash.   *)
(***************************************************************************)
EXTENDS Integers, Sequences, FiniteSets, TLC

VARIABLES
    pc,        \* position of NewFeelingLuckySearchJob
    inputs,    \* its argument inputs
    plan,      \* its argument plan
    children,  \* its local slice children
    i,         \* index of the range loop over plan that is running
    gen,       \* the slice applyRulesList returned for plan[i]
    j,         \* index of the range loop over gen
    result,    \* the job returned
    origin,    \* for each child, where it comes from (history variable)
    seen,      \* an earlier completed call and what it returned (history variable)
    ruleTab,   \* the rules a caller of applyRules / applyRulesList passes, as tables
    rb,        \* argument b of applyRules / applyRulesList
    rl,        \* argument rulesList of applyRulesList
    rpc,       \* which of the two has been called
    rchain,    \* argument rules of applyRules
    rout,      \* what applyRules returned
    rbs,       \* what applyRulesList returned
    rcalls,    \* the rule invocations of the call of applyRules (history variable)
    ub,        \* argument b of unquotePatterns
    upc,       \* position of unquotePatterns
    uraw,      \* its local rawParseTree
    unew,      \* its local newParseTree
    uchanged,  \* its local changed
    unodes,    \* its local newNodes
    uout,      \* what it returned
    ufault,    \* the call of the query package that fails on this tree, if any
    uerr,      \* the call that returned an error (history variable)
    cframe,    \* per concurrent caller, the frame of its NewFeelingLuckySearchJob
    ccell,     \* the memory cells that hold a changed flag
    gcache,    \* the ScopeCache: per key, the bytes stored
    gslow,     \* per token, the scopes of its last slow path that succeeded (history variable)
    glast,     \* the last call of GrantedScopes: its service, what it returned, how
    sdb,       \* the external services the lister lists, in its order
    spc,       \* position of SyncRateLimiters
    soffset,   \* cursor.Offset
    spage,     \* services, the page listed last
    sk,        \* index of svc in services
    sregistry, \* per URN, the limit set on its limiter of the registry
    sseen,     \* per service, how many times the inner loop took it (history variable)
    sret,      \* what SyncRateLimiters returned
    slisted    \* the calls of List made: offset, limit, services got (history variable)

vars == <<pc, inputs, plan, children, i, gen, j, result, origin, seen,
          ruleTab, rb, rl, rpc, rchain, rout, rbs, rcalls,
          ub, upc, uraw, unew, uchanged, unodes, uout, ufault, uerr,
          cframe, ccell, gcache, gslow, glast,
          sdb, spc, soffset, spage, sk, sregistry, sseen, sret, slisted>>

expandVars == <<pc, inputs, plan, children, i, gen, j, result, origin, seen>>
ruleVars == <<ruleTab, rb, rl, rpc, rchain, rout, rbs, rcalls>>
unquoteVars == <<ub, upc, uraw, unew, uchanged, unodes, uout, ufault, uerr>>
concVars == <<cframe, ccell>>
scopeVars == <<gcache, gslow, glast>>
syncVars == <<sdb, spc, soffset, spage, sk, sregistry, sseen, sret, slisted>>

\* no call of GrantedScopes
ScopesIdle ==
    /\ gcache = <<>>
    /\ gslow = <<>>
    /\ glast = <<>>

\* no call of SyncRateLimiters
SyncIdle ==
    /\ sdb = <<>>
    /\ spc = "none"
    /\ soffset = 0
    /\ spage = <<>>
    /\ sk = 0
    /\ sregistry = <<>>
    /\ sseen = <<>>
    /\ sret = "none"
    /\ slisted = <<>>

----------------------------------------------------------------------------
(* Bounds *)

MaxPlanLen == 2
MaxChainLen == 2
MaxChains == 2
MaxValueLen == 3
MaxConcPlanLen == 2
MaxServices == 4
\* r.limit, how many services each call of List fetches
SyncLimit == 2

----------------------------------------------------------------------------
(* Values *)

\* a nil *query.Basic, and the absence of a job
Nil == [nil |-> TRUE]

\* the error result of a call that returns (value, error)
Err == [err |-> TRUE]

Pattern(value, negated, labels) ==
    [kind |-> "Pattern", value |-> value, negated |-> negated, labels |-> labels]

Parameter(field, value) ==
    [kind |-> "Parameter", field |-> field, value |-> value]

Basic(parameters, pattern) == [parameters |-> parameters, pattern |-> pattern]

SeqsUpTo(S, n) == UNION {[1..k -> S] : k \in 0..n}

RECURSIVE Flatten(_)
Flatten(ss) == IF ss = <<>> THEN <<>> ELSE Head(ss) \o Flatten(Tail(ss))

----------------------------------------------------------------------------
(* The query package, as far as the unquote rule uses it *)

\* strconv.Quote on the characters of the model: the quote and the backslash
\* are escaped with a backslash
RECURSIVE Escape(_)
Escape(s) ==
    IF s = <<>> THEN <<>>
    ELSE IF Head(s) \in {"dq", "bs"} THEN <<"bs", Head(s)>> \o Escape(Tail(s))
    ELSE <<Head(s)>> \o Escape(Tail(s))

Quote(s) == <<"dq">> \o Escape(s) \o <<"dq">>

\* the text of one node: a term [negated, str]
StringHumanNode(n) ==
    IF n.kind = "Parameter"
    THEN [negated |-> FALSE, str |-> <<n.field>> \o n.value]
    ELSE LET q == IF "Quoted" \in n.labels THEN Quote(n.value) ELSE n.value
             r == IF "Regexp" \in n.labels THEN <<"sl">> \o q \o <<"sl">> ELSE q
         IN  [negated |-> n.negated, str |-> r]

\* query.StringHuman: the text of a tree, one term per node
StringHuman(nodes) == [k \in 1..Len(nodes) |-> StringHumanNode(nodes[k])]

\* Basic.ToParseTree: the parameters, then the pattern
ToParseTree(b) == b.parameters \o b.pattern

\* the position of the quote closing the one at position 1, 0 if there is none
RECURSIVE ClosingQuote(_, _)
ClosingQuote(s, k) ==
    IF k > Len(s) THEN 0
    ELSE IF s[k] = "bs" THEN ClosingQuote(s, k + 2)
    ELSE IF s[k] = "dq" THEN k
    ELSE ClosingQuote(s, k + 1)

\* the value of a quoted string's inside: escape sequences are honoured
RECURSIVE Unescape(_)
Unescape(s) ==
    IF s = <<>> THEN <<>>
    ELSE IF Head(s) = "bs" /\ Len(s) >= 2 THEN <<s[2]>> \o Unescape(Tail(Tail(s)))
    ELSE <<Head(s)>> \o Unescape(Tail(s))

FieldNames == {"repo:"}

\* a regular expression of the model is valid unless it opens a group it
\* does not close
ValidRegexp(s) == \A k \in 1..Len(s) : s[k] # "lp"

\* one term parsed under SearchTypeRegex: a node, or Err
ParseTermRegex(t) ==
    LET s == t.str IN
    IF s # <<>> /\ Head(s) \in FieldNames
    THEN Parameter(Head(s), Tail(s))
    ELSE IF Len(s) >= 2 /\ Head(s) = "dq" /\ ClosingQuote(s, 2) = Len(s)
    THEN Pattern(Unescape(SubSeq(s, 2, Len(s) - 1)), t.negated, {"Quoted"})
    ELSE IF Len(s) >= 2 /\ Head(s) = "sl" /\ s[Len(s)] = "sl"
    THEN IF ValidRegexp(SubSeq(s, 2, Len(s) - 1))
         THEN Pattern(SubSeq(s, 2, Len(s) - 1), t.negated, {"Regexp"})
         ELSE Err
    ELSE IF ValidRegexp(s) THEN Pattern(s, t.negated, {"Regexp"})
    ELSE Err

\* query.Parse(text, query.SearchTypeRegex): the nodes, or Err
ParseRegex(text) ==
    LET ns == [k \in 1..Len(text) |-> ParseTermRegex(text[k])]
    IN  IF \E k \in 1..Len(ns) : ns[k] = Err THEN Err ELSE [nodes |-> ns]

\* query.Sequence(query.For(query.SearchTypeLiteralDefault)): a tree with no
\* node has nothing to search for
SequenceLiteral(nodes) ==
    IF nodes = <<>> THEN Err ELSE [nodes |-> nodes]

IsParameter(n) == n.kind = "Parameter"
IsPattern(n) == n.kind = "Pattern"

\* query.ToBasicQuery: the parameters and the pattern of a tree
ToBasicQuery(nodes) ==
    IF SelectSeq(nodes, IsPattern) = <<>> /\ SelectSeq(nodes, IsParameter) = <<>>
    THEN Err
    ELSE [basic |-> Basic(SelectSeq(nodes, IsParameter), SelectSeq(nodes, IsPattern))]

----------------------------------------------------------------------------
(* The rules *)

\* the callback with the wrong label constant: Regexp set instead of Literal
unquoteCallbackRegexp(value, negated, labels) ==
    IF "Quoted" \in labels
    THEN Pattern(value, negated, (labels \ {"Quoted"}) \cup {"Regexp"})
    ELSE Pattern(value, negated, labels)

unquoteCallbackIdentity(value, negated, labels) == Pattern(value, negated, labels)

unquoteCallbackDropsNegation(value, negated, labels) ==
    IF "Quoted" \in labels
    THEN Pattern(value, FALSE, (labels \ {"Quoted"}) \cup {"Literal"})
    ELSE Pattern(value, negated, labels)

unquoteCallbackKeepsQuoted(value, negated, labels) ==
    IF "Quoted" \in labels
    THEN Pattern(value, negated, labels \cup {"Literal"})
    ELSE Pattern(value, negated, labels)

\* the callback unquotePatterns hands to MapPattern
unquoteCallback(value, negated, labels) ==
    IF "Quoted" \in labels
    THEN Pattern(value, negated, (labels \ {"Quoted"}) \cup {"Literal"})
    ELSE Pattern(value, negated, labels)

\* query.MapPattern with the callback above: the callback on every pattern
\* leaf, the other nodes kept
MapPattern(nodes) ==
    [k \in 1..Len(nodes) |->
        IF nodes[k].kind = "Pattern"
        THEN unquoteCallback(nodes[k].value, nodes[k].negated, nodes[k].labels)
        ELSE nodes[k]]

unquoteChangedAlways(nodes) == TRUE

\* changed after MapPattern: the callback sets it on every pattern it finds
\* labelled Quoted
unquoteChanged(nodes) ==
    \E k \in 1..Len(nodes) :
        nodes[k].kind = "Pattern" /\ "Quoted" \in nodes[k].labels

unquoteOnErrorPropagates == Err

\* what unquotePatterns returns when a call of the query package fails
unquoteOnError == Nil

unquotePatterns(b) ==
    LET rawParseTree == ParseRegex(StringHuman(ToParseTree(b))) IN
    IF rawParseTree = Err THEN unquoteOnError
    ELSE
    LET changed == unquoteChanged(rawParseTree.nodes)
        newParseTree == MapPattern(rawParseTree.nodes)
    IN
    IF ~changed THEN Nil
    ELSE
    LET newNodes == SequenceLiteral(newParseTree) IN
    IF newNodes = Err THEN unquoteOnError
    ELSE
    LET newBasic == ToBasicQuery(newNodes.nodes) IN
    IF newBasic = Err THEN unquoteOnError
    ELSE newBasic.basic

\* a rule is a function from a Basic to a Basic or nil: unquotePatterns, or
\* one a caller passes, given by its table
RuleNames == {"unquotePatterns", "R1"}

\* rules[0](b)
ApplyRule(r, b) ==
    IF r = "unquotePatterns" THEN unquotePatterns(b) ELSE ruleTab[r][b]

rulesListEmptyChain == << <<>> >>

rulesListTwice == << <<"unquotePatterns">>, <<"unquotePatterns">> >>

rulesList == << <<"unquotePatterns">> >>

\* applyRules with a base case that returns nil
RECURSIVE applyRulesNilBase(_, _)
applyRulesNilBase(b, rules) ==
    IF Len(rules) = 0 THEN Nil
    ELSE LET next == ApplyRule(rules[1], b) IN
         IF next # Nil THEN applyRulesNilBase(next, Tail(rules)) ELSE Nil

\* applyRules that falls back to what it has when a rule does not apply
RECURSIVE applyRulesPartial(_, _)
applyRulesPartial(b, rules) ==
    IF Len(rules) = 0 THEN b
    ELSE LET next == ApplyRule(rules[1], b) IN
         IF next # Nil THEN applyRulesPartial(next, Tail(rules)) ELSE b

\* applyRules that takes the rules from the last to the first
RECURSIVE applyRulesRightToLeft(_, _)
applyRulesRightToLeft(b, rules) ==
    IF Len(rules) = 0 THEN b
    ELSE LET next == ApplyRule(rules[Len(rules)], b) IN
         IF next # Nil
         THEN applyRulesRightToLeft(next, SubSeq(rules, 1, Len(rules) - 1))
         ELSE Nil

RECURSIVE applyRules(_, _)
applyRules(b, rules) ==
    IF Len(rules) = 0 THEN b
    ELSE LET next == ApplyRule(rules[1], b) IN
         IF next # Nil THEN applyRules(next, Tail(rules)) ELSE Nil

\* applyRules that goes on to the next rule, on the same Basic, when a rule
\* does not apply
RECURSIVE applyRulesCallsEager(_, _)
applyRulesCallsEager(b, rules) ==
    IF Len(rules) = 0 THEN <<>>
    ELSE LET next == ApplyRule(rules[1], b) IN
         <<[rule |-> rules[1], arg |-> b]>> \o
         applyRulesCallsEager(IF next # Nil THEN next ELSE b, Tail(rules))

\* the rule invocations applyRules makes, in the order it makes them: the
\* call rules[0](b), then those of the recursive call if there is one
RECURSIVE applyRulesCalls(_, _)
applyRulesCalls(b, rules) ==
    IF Len(rules) = 0 THEN <<>>
    ELSE LET next == ApplyRule(rules[1], b) IN
         <<[rule |-> rules[1], arg |-> b]>> \o
         (IF next # Nil THEN applyRulesCalls(next, Tail(rules)) ELSE <<>>)

\* the range loop of applyRulesList from chain k on, bs being the slice so far
RECURSIVE applyRulesListLoop(_, _, _, _)
applyRulesListLoop(b, chains, k, bs) ==
    IF k > Len(chains) THEN bs
    ELSE LET generated == applyRules(b, chains[k]) IN
         applyRulesListLoop(b, chains, k + 1,
                            IF generated # Nil THEN Append(bs, generated) ELSE bs)

\* applyRulesList that hands each chain the Basic the chain before it generated
RECURSIVE applyRulesListThreadedLoop(_, _, _, _)
applyRulesListThreadedLoop(b, chains, k, bs) ==
    IF k > Len(chains) THEN bs
    ELSE LET generated == applyRules(b, chains[k]) IN
         IF generated # Nil
         THEN applyRulesListThreadedLoop(generated, chains, k + 1, Append(bs, generated))
         ELSE applyRulesListThreadedLoop(b, chains, k + 1, bs)

applyRulesListThreaded(b, chains) == applyRulesListThreadedLoop(b, chains, 1, <<>>)

applyRulesList(b, chains) == applyRulesListLoop(b, chains, 1, <<>>)

----------------------------------------------------------------------------
(* Jobs *)

\* NewBasicJob: the unit of a Basic, or Err for a Basic that holds a regular
\* expression that does not compile
NewBasicJob(in, b) ==
    IF \E k \in 1..Len(b.pattern) :
           "Regexp" \in b.pattern[k].labels /\ ~ValidRegexp(b.pattern[k].value)
    THEN Err
    ELSE [job |-> [kind |-> "basic", inputs |-> in, basic |-> b]]

\* NewSequentialJob: the composite of the children, in their order
NewSequentialJob(runPastFirstSuccess, cs) ==
    [kind |-> "sequential", runPastFirstSuccess |-> runPastFirstSuccess,
     children |-> cs]

\* the positions of the children a sequential job runs when the children at
\* the positions yields are the ones that find results: without the flag it
\* stops after the first child that yields
SequentialRun(job, yields) ==
    {k \in 1..Len(job.children) :
        job.runPastFirstSuccess \/ \A m \in 1..(k - 1) : m \notin yields}

----------------------------------------------------------------------------
(* The inputs the model draws from *)

VA == <<"a">>
VQuotedA == <<"dq", "a", "dq">>
VParen == <<"lp">>
VQuotedParen == <<"dq", "lp", "dq">>

\* "a" written in quotes, as the literal parse of the user's text gives it
BQuoted == Basic(<<>>, <<Pattern(VQuotedA, FALSE, {"Literal"})>>)
\* a written without quotes
BPlain == Basic(<<>>, <<Pattern(VA, FALSE, {"Literal"})>>)
\* a regular expression that does not compile
BBadRegexp == Basic(<<>>, <<Pattern(VParen, FALSE, {"Regexp"})>>)
\* a negated quoted parenthesis, with a repo: filter
BQuotedParen ==
    Basic(<<Parameter("repo:", VA)>>, <<Pattern(VQuotedParen, TRUE, {"Literal"})>>)

\* "a" in quotes and a parenthesis: quoted, but not a regular expression
BQuotedAndParen ==
    Basic(<<>>, <<Pattern(VQuotedA, FALSE, {"Literal"}), Pattern(VParen, FALSE, {"Literal"})>>)

PlanBasics == {BQuoted, BPlain, BBadRegexp, BQuotedParen, BQuotedAndParen}

Plans == SeqsUpTo(PlanBasics, MaxPlanLen)

Inputs == {"in1", "in2"}

\* the Basics the callers of applyRules and applyRulesList pass, closed under
\* unquotePatterns
RuleBasics == {BQuoted, BPlain}

Chains == SeqsUpTo(RuleNames, MaxChainLen)

ChainSets == SeqsUpTo(Chains, MaxChains)

RuleTabs == [RuleNames \ {"unquotePatterns"} -> [RuleBasics -> RuleBasics \cup {Nil}]]

----------------------------------------------------------------------------
(* NewFeelingLuckySearchJob *)

\* the child put in front of the slice
PrependChild(cs, c) == <<c>> \o cs

\* children = append(children, child)
AppendChild(cs, c) == Append(cs, c)

\* applyRulesList called without the rules
GeneratedForNoRules(b) == applyRulesList(b, <<>>)

\* the rules applied by the first call only, behind a package-level guard
GeneratedForOnce(b) == IF seen = Nil THEN applyRulesList(b, rulesList) ELSE <<>>

\* applyRulesList(b, rulesList...)
GeneratedFor(b) == applyRulesList(b, rulesList)

FirstLoopDoneAfterOne(k, p) == k > 1 \/ k > Len(p)

\* for _, b := range plan, in the first loop: no Basic is left at index k
FirstLoopDone(k, p) == k > Len(p)

OnOriginalErrorSkips(k) == [pc |-> "first", i |-> k + 1]

\* if err != nil { panic("TODO") } in the first loop, at plan[k]: where the
\* call goes on
OnOriginalError(k) == [pc |-> "panic TODO", i |-> k]

\* no composite when there is no child
ReturnedJobNilIfEmpty(cs) == IF cs = <<>> THEN Nil ELSE NewSequentialJob(TRUE, cs)

\* the composite of the generated children alone
ReturnedJobGeneratedOnly(cs) ==
    NewSequentialJob(TRUE, SubSeq(cs, Len(plan) + 1, Len(cs)))

\* the composite built with the flag false
ReturnedJobStopAtFirst(cs) == NewSequentialJob(FALSE, cs)

\* NewSequentialJob(true, children...)
ReturnedJob(cs) == NewSequentialJob(TRUE, cs)

Init ==
    /\ pc = "idle"
    /\ inputs = Nil
    /\ plan = <<>>
    /\ children = <<>>
    /\ i = 0
    /\ gen = <<>>
    /\ j = 0
    /\ result = Nil
    /\ origin = <<>>
    /\ seen = Nil
    /\ ruleTab = [r \in RuleNames \ {"unquotePatterns"} |-> [b \in RuleBasics |-> Nil]]
    /\ rb = Nil
    /\ rl = <<>>
    /\ rpc = "none"
    /\ rchain = <<>>
    /\ rout = Nil
    /\ rbs = <<>>
    /\ rcalls = <<>>
    /\ ub = Nil
    /\ upc = "none"
    /\ uraw = <<>>
    /\ unew = <<>>
    /\ uchanged = FALSE
    /\ unodes = <<>>
    /\ uout = Nil
    /\ ufault = "none"
    /\ uerr = "none"
    /\ cframe = <<>>
    /\ ccell = <<>>
    /\ ScopesIdle
    /\ SyncIdle

\* a caller calls NewFeelingLuckySearchJob(inputs, plan)
Call ==
    /\ pc = "idle"
    /\ \E in \in Inputs, p \in Plans :
           /\ inputs' = in
           /\ plan' = p
    /\ i' = 1
    /\ pc' = "first"
    /\ UNCHANGED <<children, origin, gen, j, result, seen, ruleVars, unquoteVars, concVars, scopeVars, syncVars>>

\* one iteration of the first loop over plan
FirstLoop ==
    /\ pc = "first"
    /\ ~FirstLoopDone(i, plan)
    /\ LET child == NewBasicJob(inputs, plan[i]) IN
       IF child = Err
       THEN /\ pc' = OnOriginalError(i).pc
            /\ i' = OnOriginalError(i).i
            /\ UNCHANGED <<children, origin>>
       ELSE /\ children' = AppendChild(children, child.job)
            /\ origin' = AppendChild(origin, [kind |-> "original", src |-> i])
            /\ i' = i + 1
            /\ pc' = pc
    /\ UNCHANGED <<inputs, plan, gen, j, result, seen, ruleVars, unquoteVars, concVars, scopeVars, syncVars>>

\* the first loop ends, the second begins
FirstLoopEnd ==
    /\ pc = "first"
    /\ FirstLoopDone(i, plan)
    /\ i' = 1
    /\ pc' = "outer"
    /\ UNCHANGED <<inputs, plan, children, origin, gen, j, result, seen, ruleVars, unquoteVars, concVars, scopeVars, syncVars>>

\* one iteration of the second loop over plan: the rules are applied to plan[i]
OuterLoop ==
    /\ pc = "outer"
    /\ i <= Len(plan)
    /\ gen' = GeneratedFor(plan[i])
    /\ j' = 1
    /\ pc' = "inner"
    /\ UNCHANGED <<inputs, plan, children, origin, i, result, seen, ruleVars, unquoteVars, concVars, scopeVars, syncVars>>

\* one iteration of the loop over the generated Basics
InnerLoop ==
    /\ pc = "inner"
    /\ j <= Len(gen)
    /\ LET child == NewBasicJob(inputs, gen[j]) IN
       IF child = Err
       THEN /\ pc' = "panic generated"
            /\ UNCHANGED <<children, origin, j>>
       ELSE /\ children' = AppendChild(children, child.job)
            /\ origin' = AppendChild(origin, [kind |-> "generated", src |-> i])
            /\ j' = j + 1
            /\ pc' = pc
    /\ UNCHANGED <<inputs, plan, i, gen, result, seen, ruleVars, unquoteVars, concVars, scopeVars, syncVars>>

InnerLoopEnd ==
    /\ pc = "inner"
    /\ j > Len(gen)
    /\ i' = i + 1
    /\ pc' = "outer"
    /\ UNCHANGED <<inputs, plan, children, origin, gen, j, result, seen, ruleVars, unquoteVars, concVars, scopeVars, syncVars>>

\* the second loop ends: the composite is built and returned
OuterLoopEnd ==
    /\ pc = "outer"
    /\ i > Len(plan)
    /\ result' = ReturnedJob(children)
    /\ pc' = "done"
    /\ UNCHANGED <<inputs, plan, children, origin, i, gen, j, seen, ruleVars, unquoteVars, concVars, scopeVars, syncVars>>

\* the caller takes the job and the frame of the call is gone; the call may
\* be the one remembered in seen
Return ==
    /\ pc = "done"
    /\ \E keep \in BOOLEAN :
           seen' = IF keep /\ seen # Nil THEN seen
                   ELSE [inputs |-> inputs, plan |-> plan, result |-> result]
    /\ pc' = "idle"
    /\ inputs' = Nil
    /\ plan' = <<>>
    /\ children' = <<>>
    /\ origin' = <<>>
    /\ i' = 0
    /\ gen' = <<>>
    /\ j' = 0
    /\ result' = Nil
    /\ UNCHANGED <<ruleVars, unquoteVars, concVars, scopeVars, syncVars>>

Next ==
    \/ Call
    \/ FirstLoop
    \/ FirstLoopEnd
    \/ OuterLoop
    \/ InnerLoop
    \/ InnerLoopEnd
    \/ OuterLoopEnd
    \/ Return

Spec == Init /\ [][Next]_vars

----------------------------------------------------------------------------
(* applyRules and applyRulesList called on their own *)

\* the caller's Basic, chains and rules are drawn; nothing has been called
InitRules ==
    /\ pc = "idle"
    /\ inputs = Nil
    /\ plan = <<>>
    /\ children = <<>>
    /\ i = 0
    /\ gen = <<>>
    /\ j = 0
    /\ result = Nil
    /\ origin = <<>>
    /\ seen = Nil
    /\ ruleTab \in RuleTabs
    /\ rb \in RuleBasics
    /\ rl \in ChainSets
    /\ rpc = "ready"
    /\ rchain = <<>>
    /\ rout = Nil
    /\ rbs = <<>>
    /\ rcalls = <<>>
    /\ ub = Nil
    /\ upc = "none"
    /\ uraw = <<>>
    /\ unew = <<>>
    /\ uchanged = FALSE
    /\ unodes = <<>>
    /\ uout = Nil
    /\ ufault = "none"
    /\ uerr = "none"
    /\ cframe = <<>>
    /\ ccell = <<>>
    /\ ScopesIdle
    /\ SyncIdle

\* applyRules(rb, rules...) with one of the chains
CallApplyRules ==
    /\ rpc = "ready"
    /\ \E k \in 1..Len(rl) :
           /\ rchain' = rl[k]
           /\ rout' = applyRules(rb, rl[k])
           /\ rcalls' = applyRulesCalls(rb, rl[k])
    /\ rpc' = "applyRules"
    /\ UNCHANGED <<expandVars, unquoteVars, concVars, scopeVars, syncVars, ruleTab, rb, rl, rbs>>

\* applyRulesList(rb, rl...)
CallApplyRulesList ==
    /\ rpc = "ready"
    /\ rbs' = applyRulesList(rb, rl)
    /\ rpc' = "applyRulesList"
    /\ UNCHANGED <<expandVars, unquoteVars, concVars, scopeVars, syncVars, ruleTab, rb, rl, rchain, rout, rcalls>>

NextRules ==
    \/ CallApplyRules
    \/ CallApplyRulesList

SpecRules == InitRules /\ [][NextRules]_vars

----------------------------------------------------------------------------
(* unquotePatterns called on its own, statement by statement *)

Chars == {"a", "dq", "bs", "lp", "sl"}

\* "a" in quotes, in quotes: the inner quotes escaped
VNestedQuotes == <<"dq", "bs", "dq", "a", "bs", "dq", "dq">>

Values == (SeqsUpTo(Chars, MaxValueLen) \ {<<>>}) \cup {VNestedQuotes}

LabelSets == {{"Literal"}, {"Regexp"}, {"Quoted"}}

\* the patterns that may follow the first one of a Basic
MorePatterns ==
    {<<>>, <<Pattern(VA, TRUE, {"Literal"})>>, <<Pattern(VParen, FALSE, {"Literal"})>>}

UnquoteBasics ==
    {Basic(ps, <<Pattern(v, n, ls)>> \o more) :
        ps \in {<<>>, <<Parameter("repo:", VA)>>}, v \in Values, n \in BOOLEAN,
        ls \in LabelSets, more \in MorePatterns}

\* the calls of the query package whose failure unquotePatterns handles and
\* whose conditions of failure are not known: one of them may fail on the tree
Faults == {"none", "sequence", "flatten"}

InitUnquote ==
    /\ pc = "idle"
    /\ inputs = Nil
    /\ plan = <<>>
    /\ children = <<>>
    /\ i = 0
    /\ gen = <<>>
    /\ j = 0
    /\ result = Nil
    /\ origin = <<>>
    /\ seen = Nil
    /\ ruleTab = [r \in RuleNames \ {"unquotePatterns"} |-> [b \in RuleBasics |-> Nil]]
    /\ rb = Nil
    /\ rl = <<>>
    /\ rpc = "none"
    /\ rchain = <<>>
    /\ rout = Nil
    /\ rbs = <<>>
    /\ rcalls = <<>>
    /\ ub \in UnquoteBasics
    /\ upc = "parse"
    /\ uraw = <<>>
    /\ unew = <<>>
    /\ uchanged = FALSE
    /\ unodes = <<>>
    /\ uout = Nil
    /\ ufault \in Faults
    /\ uerr = "none"
    /\ cframe = <<>>
    /\ ccell = <<>>
    /\ ScopesIdle
    /\ SyncIdle

\* rawParseTree, err := query.Parse(query.StringHuman(b.ToParseTree()), ...)
UnquoteParse ==
    /\ upc = "parse"
    /\ LET r == ParseRegex(StringHuman(ToParseTree(ub))) IN
       IF r = Err
       THEN /\ uerr' = "parse"
            /\ uout' = unquoteOnError
            /\ upc' = "returned"
            /\ UNCHANGED uraw
       ELSE /\ uraw' = r.nodes
            /\ upc' = "map"
            /\ UNCHANGED <<uerr, uout>>
    /\ UNCHANGED <<expandVars, ruleVars, concVars, scopeVars, syncVars, ub, unew, uchanged, unodes, ufault>>

\* changed := false; newParseTree := query.MapPattern(rawParseTree, ...)
UnquoteMap ==
    /\ upc = "map"
    /\ unew' = MapPattern(uraw)
    /\ uchanged' = unquoteChanged(uraw)
    /\ upc' = "check"
    /\ UNCHANGED <<expandVars, ruleVars, concVars, scopeVars, syncVars, ub, uraw, unodes, uout, ufault, uerr>>

\* if !changed { return nil }
UnquoteCheck ==
    /\ upc = "check"
    /\ IF ~uchanged
       THEN /\ uout' = Nil
            /\ upc' = "returned"
       ELSE /\ upc' = "sequence"
            /\ UNCHANGED uout
    /\ UNCHANGED <<expandVars, ruleVars, concVars, scopeVars, syncVars, ub, uraw, unew, uchanged, unodes, ufault, uerr>>

\* newNodes, err := query.Sequence(query.For(query.SearchTypeLiteralDefault))(newParseTree)
UnquoteSequence ==
    /\ upc = "sequence"
    /\ LET r == IF ufault = "sequence" THEN Err ELSE SequenceLiteral(unew) IN
       IF r = Err
       THEN /\ uerr' = "sequence"
            /\ uout' = unquoteOnError
            /\ upc' = "returned"
            /\ UNCHANGED unodes
       ELSE /\ unodes' = r.nodes
            /\ upc' = "flatten"
            /\ UNCHANGED <<uerr, uout>>
    /\ UNCHANGED <<expandVars, ruleVars, concVars, scopeVars, syncVars, ub, uraw, unew, uchanged, ufault>>

\* newBasic, err := query.ToBasicQuery(newNodes); return &newBasic
UnquoteFlatten ==
    /\ upc = "flatten"
    /\ LET r == IF ufault = "flatten" THEN Err ELSE ToBasicQuery(unodes) IN
       IF r = Err
       THEN /\ uerr' = "flatten"
            /\ uout' = unquoteOnError
       ELSE /\ uout' = r.basic
            /\ UNCHANGED uerr
    /\ upc' = "returned"
    /\ UNCHANGED <<expandVars, ruleVars, concVars, scopeVars, syncVars, ub, uraw, unew, uchanged, unodes, ufault>>

NextUnquote ==
    \/ UnquoteParse
    \/ UnquoteMap
    \/ UnquoteCheck
    \/ UnquoteSequence
    \/ UnquoteFlatten

SpecUnquote == InitUnquote /\ [][NextUnquote]_vars

----------------------------------------------------------------------------
(* What the claims are stated with *)

\* the unit NewBasicJob builds from a Basic that constructs
Unit(in, b) == NewBasicJob(in, b).job

Units(in, bs) == [k \in 1..Len(bs) |-> Unit(in, bs[k])]

Constructs(in, b) == NewBasicJob(in, b) # Err

IsGenerated(b) == b # Nil

\* no chain of rulesList applies to any Basic of p
NoChainApplies(p) ==
    \A k \in 1..Len(p) : \A c \in 1..Len(rulesList) :
        applyRules(p[k], rulesList[c]) = Nil

\* what the first n rules of a chain give, each fed the output of the one
\* before it; Nil once one of them is inapplicable
RECURSIVE After(_, _, _)
After(b, chain, n) ==
    IF n = 0 THEN b
    ELSE LET prev == After(b, chain, n - 1) IN
         IF prev = Nil THEN Nil ELSE ApplyRule(chain[n], prev)

----------------------------------------------------------------------------
(* Claims on NewFeelingLuckySearchJob, under Spec *)

\* C1: among the children, no unit of a generated Basic comes before a unit
\* of a Basic of the plan, and the units of each group are in the order of the
\* plan Basics they come from; the composite returned has these children.
C1_OriginalsBeforeGenerated ==
    /\ Len(origin) = Len(children)
    /\ \A p \in 1..Len(children) :
          /\ origin[p].src \in 1..Len(plan)
          /\ origin[p].kind = "original" =>
                children[p] = Unit(inputs, plan[origin[p].src])
          /\ origin[p].kind = "generated" =>
                \E g \in 1..Len(applyRulesList(plan[origin[p].src], rulesList)) :
                    children[p] =
                        Unit(inputs, applyRulesList(plan[origin[p].src], rulesList)[g])
    /\ \A p, q \in 1..Len(children) :
          p < q =>
            /\ ~(origin[p].kind = "generated" /\ origin[q].kind = "original")
            /\ origin[p].kind = origin[q].kind => origin[p].src <= origin[q].src
    /\ pc = "done" => result.children = children

\* a composite whose child generated from the first Basic of the plan comes
\* after the unit of the second, and before the one generated from the second
C1_Witness ==
    /\ pc = "done"
    /\ \E p, q, r \in 1..Len(children) :
          /\ p < q /\ q < r
          /\ origin[p] = [kind |-> "original", src |-> 2]
          /\ origin[q] = [kind |-> "generated", src |-> 1]
          /\ origin[r] = [kind |-> "generated", src |-> 2]

\* C2: for a non-empty plan whose units all construct, the children of the
\* composite are the units of the plan's Basics in order, followed by the
\* units of applyRulesList(plan[k], rulesList), k ascending, and nothing else.
C2_ExactChildren ==
    (pc = "done" /\ plan # <<>>) =>
        result.children =
            Units(inputs, plan) \o
            Units(inputs,
                  Flatten([k \in 1..Len(plan) |-> applyRulesList(plan[k], rulesList)]))

\* a composite of two originals and one generated unit, from the second Basic
C2_Witness ==
    /\ pc = "done"
    /\ Len(plan) = 2
    /\ Len(result.children) = 3
    /\ applyRulesList(plan[1], rulesList) = <<>>
    /\ result.children[3] = Unit(inputs, applyRulesList(plan[2], rulesList)[1])

\* C3: a call with the inputs and the plan of an earlier call returns the
\* composite that call returned, whatever ran in between.
C3_Deterministic ==
    (pc = "done" /\ seen # Nil /\ seen.inputs = inputs /\ seen.plan = plan) =>
        /\ Len(result.children) = Len(seen.result.children)
        /\ \A k \in 1..Len(result.children) :
              result.children[k] = seen.result.children[k]

\* a second call with the inputs and plan of an earlier one, with a generated child
C3_Witness ==
    /\ pc = "done"
    /\ seen # Nil
    /\ seen.inputs = inputs
    /\ seen.plan = plan
    /\ Len(result.children) > Len(plan)

C5_RunsPastFirstSuccess ==
    pc = "done" =>
        /\ result.kind = "sequential"
        /\ result.runPastFirstSuccess = TRUE
        /\ \A yields \in SUBSET (1..Len(result.children)) :
              SequentialRun(result, yields) = 1..Len(result.children)

\* a composite with a generated child
C5_Witness ==
    /\ pc = "done"
    /\ result.runPastFirstSuccess
    /\ \E p \in 1..Len(children) : origin[p].kind = "generated"

----------------------------------------------------------------------------
(* Claims on applyRules and applyRulesList, under SpecRules *)

\* C7: applyRules with an empty chain returns its input, not nil.
C7_EmptyChainIdentity ==
    (rpc = "applyRules" /\ rchain = <<>>) => (rout = rb /\ rout # Nil)

C7_Witness == rpc = "applyRules" /\ rchain = <<>> /\ rout = rb

\* C8: when a rule of the chain, fed the output of the rules before it, is
\* inapplicable, applyRules returns nil.
C8_AllOrNothing ==
    (rpc = "applyRules" /\ \E n \in 1..Len(rchain) : After(rb, rchain, n) = Nil)
        => rout = Nil

\* the first rule changed the Basic and the second was inapplicable: nil
C8_Witness ==
    /\ rpc = "applyRules"
    /\ Len(rchain) = 2
    /\ After(rb, rchain, 1) \notin {Nil, rb}
    /\ After(rb, rchain, 2) = Nil
    /\ rout = Nil

\* C9: when every rule of the chain applies in turn, applyRules returns the
\* output of the last rule, each rule having been given the output of the one
\* before it and the first the input.
C9_LeftToRight ==
    (rpc = "applyRules" /\ \A n \in 1..Len(rchain) : After(rb, rchain, n) # Nil)
        => /\ rout = After(rb, rchain, Len(rchain))
           /\ Len(rchain) = 2 =>
                 rout = ApplyRule(rchain[2], ApplyRule(rchain[1], rb))

\* two different rules that both apply, and do not commute on the input
C9_Witness ==
    /\ rpc = "applyRules"
    /\ Len(rchain) = 2
    /\ rchain[1] # rchain[2]
    /\ After(rb, rchain, 2) # Nil
    /\ rout = After(rb, rchain, 2)
    /\ rout # After(rb, <<rchain[2], rchain[1]>>, 2)

\* C10: applyRulesList returns the non-nil results of applyRules on the same
\* input for each chain, in the order of the chains; at most one per chain.
C10_ListOfApplicableChains ==
    rpc = "applyRulesList" =>
        /\ rbs = SelectSeq([k \in 1..Len(rl) |-> applyRules(rb, rl[k])], IsGenerated)
        /\ Len(rbs) <= Len(rl)
        /\ \A k \in 1..Len(rbs) : rbs[k] # Nil

\* two chains that apply, the second giving another Basic on the output of the first
C10_Witness ==
    /\ rpc = "applyRulesList"
    /\ Len(rl) = 2
    /\ applyRules(rb, rl[1]) \notin {Nil, rb}
    /\ applyRules(rb, rl[2]) # Nil
    /\ applyRules(rb, rl[2]) # applyRules(applyRules(rb, rl[1]), rl[2])
    /\ Len(rbs) = 2

----------------------------------------------------------------------------
(* Claims about unquotePatterns, under SpecUnquote *)

QuotedIn(nodes) ==
    {k \in 1..Len(nodes) : nodes[k].kind = "Pattern" /\ "Quoted" \in nodes[k].labels}

\* C11, as the specification words it: unquotePatterns applied to a Basic in
\* which no pattern is labelled Quoted returns nil.
C11_NoQuotedLabelInBasic ==
    (upc = "returned" /\ QuotedIn(ub.pattern) = {}) => uout = Nil

\* C11, amended: unquotePatterns applied to a Basic whose text, parsed again as
\* a regular-expression query, has no pattern labelled Quoted returns nil.
C11_NoQuotedAfterReparse ==
    (upc = "returned" /\ uraw # <<>> /\ QuotedIn(uraw) = {}) => uout = Nil

\* a Basic that parses again, to patterns none of which is Quoted
C11_Witness ==
    /\ upc = "returned"
    /\ uraw # <<>>
    /\ QuotedIn(uraw) = {}
    /\ Len(uraw) = 3
    /\ uout = Nil

\* C12: in the rewritten tree every pattern the parse labelled Quoted has
\* Literal set and Quoted cleared, with the same value and negation; every
\* other node is the node of the parsed tree.
C12_RewriteFlipsQuotedOnly ==
    unew # <<>> =>
        /\ Len(unew) = Len(uraw)
        /\ \A k \in 1..Len(uraw) :
              IF k \in QuotedIn(uraw)
              THEN /\ unew[k].kind = "Pattern"
                   /\ "Literal" \in unew[k].labels
                   /\ "Quoted" \notin unew[k].labels
                   /\ unew[k].value = uraw[k].value
                   /\ unew[k].negated = uraw[k].negated
              ELSE unew[k] = uraw[k]

\* a negated quoted pattern rewritten next to a pattern that is not quoted
C12_Witness ==
    /\ unew # <<>>
    /\ \E k \in QuotedIn(uraw) : uraw[k].negated /\ "Literal" \in unew[k].labels
    /\ \E k \in 1..Len(uraw) :
          /\ uraw[k].kind = "Pattern"
          /\ k \notin QuotedIn(uraw)
          /\ unew[k] = uraw[k]

\* C13: unquotePatterns never returns an error: when the parse, the
\* sequencing or the flattening fails, it returns nil.
C13_ErrorsBecomeNil ==
    /\ uout # Err
    /\ (upc = "returned" /\ uerr # "none") => uout = Nil

\* the flattening fails after the parse, the rewrite and the sequencing succeeded
C13_Witness ==
    /\ upc = "returned"
    /\ uerr = "flatten"
    /\ uchanged
    /\ unodes # <<>>
    /\ uout = Nil

Exclusive(nodes) ==
    \A k \in 1..Len(nodes) :
        nodes[k].kind = "Pattern" =>
            Cardinality(nodes[k].labels \cap {"Quoted", "Literal", "Regexp"}) <= 1

----------------------------------------------------------------------------
(* Further claims on NewFeelingLuckySearchJob, under Spec *)

\* C14: when NewBasicJob fails on a Basic of the plan, the call panics at the
\* first such Basic: it returns no composite and never goes past that Basic.
C14_PanicOnFailingOriginal ==
    (pc # "idle" /\ \E k \in 1..Len(plan) : ~Constructs(inputs, plan[k])) =>
        /\ pc \in {"first", "panic TODO"}
        /\ result = Nil
        /\ \A k \in 1..(i - 1) : Constructs(inputs, plan[k])
        /\ Len(children) = i - 1
        /\ pc = "panic TODO" => ~Constructs(inputs, plan[i])

\* the panic at the second Basic of a plan, the unit of the first already built
C14_Witness ==
    /\ pc = "panic TODO"
    /\ i = 2
    /\ Len(children) = 1
    /\ result = Nil

\* the Basics the children at the generated positions were built from
GeneratedAt(p) == children[p].basic

\* C15, as the specification words it: no generated Basic is a Basic of the plan.
C15_NoGeneratedInPlan ==
    \A p \in 1..Len(children) :
        origin[p].kind = "generated" =>
            \A k \in 1..Len(plan) : GeneratedAt(p) # plan[k]

\* C15, amended: no generated Basic is the Basic of the plan it was generated
\* from.
C15_NoGeneratedIsItsSource ==
    \A p \in 1..Len(children) :
        origin[p].kind = "generated" => GeneratedAt(p) # plan[origin[p].src]

\* a composite with a generated unit that is the unit of another Basic of the plan
C15_Witness ==
    /\ pc = "done"
    /\ \E p \in 1..Len(children) :
          /\ origin[p].kind = "generated"
          /\ GeneratedAt(p) # plan[origin[p].src]
          /\ \E k \in 1..Len(plan) : GeneratedAt(p) = plan[k]

\* a pattern written in quotes
HasQuotedPattern(b) ==
    \E k \in 1..Len(b.pattern) :
        LET t == ParseTermRegex(StringHumanNode(b.pattern[k])) IN
        t # Err /\ t.kind = "Pattern" /\ "Quoted" \in t.labels

\* unquotePatterns applies: the text parses again, with a pattern labelled Quoted
UnquoteApplies(b) ==
    LET r == ParseRegex(StringHuman(ToParseTree(b))) IN
    r # Err /\ QuotedIn(r.nodes) # {}

AtMostOneGenerated ==
    \A k \in 1..Len(plan) :
        Cardinality({p \in 1..Len(origin) : origin[p] = [kind |-> "generated", src |-> k]}) <= 1

----------------------------------------------------------------------------
(* Further claims on applyRules, under SpecRules *)

\* C20: applyRules invokes the rules of the chain in order, each at most once
\* and on the output of the one before it, and stops at the first that
\* returns nil: no later rule is invoked, and there are at most as many
\* invocations as rules.
C20_StopsAtFirstInapplicable ==
    rpc = "applyRules" =>
        /\ Len(rcalls) <= Len(rchain)
        /\ \A n \in 1..Len(rcalls) :
              /\ rcalls[n].rule = rchain[n]
              /\ rcalls[n].arg = After(rb, rchain, n - 1)
              /\ rcalls[n].arg # Nil
        /\ \A n \in 1..Len(rchain) :
              After(rb, rchain, n) = Nil => Len(rcalls) <= n
        /\ Len(rcalls) < Len(rchain) => After(rb, rchain, Len(rcalls)) = Nil

\* a chain of two different rules whose first does not apply: one invocation
C20_Witness ==
    /\ rpc = "applyRules"
    /\ Len(rchain) = 2
    /\ rchain[1] # rchain[2]
    /\ ApplyRule(rchain[1], rb) = Nil
    /\ ApplyRule(rchain[2], rb) # Nil
    /\ Len(rcalls) = 1
    /\ rout = Nil

----------------------------------------------------------------------------
(* NewFeelingLuckySearchJob called by several callers at once, each call
   taken statement by statement down to the callback of unquotePatterns *)

Callers == {"c1", "c2"}

ConcBasics == {BQuoted, BPlain}

ConcPlans == SeqsUpTo(ConcBasics, MaxConcPlanLen)

\* the inputs each caller passes
ConcInputs(c) == IF c = "c1" THEN "in1" ELSE "in2"

ChangedCellShared(c) == "shared"

\* the cell that holds changed in the invocation of unquotePatterns made by
\* caller c: a local variable, one for each invocation
ChangedCell(c) == c

Cells == Callers \cup {"shared"}

Frame(p) ==
    [pc |-> "first", plan |-> p, i |-> 1, children |-> <<>>, tree |-> <<>>,
     k |-> 0, raced |-> FALSE, result |-> Nil]

InitConc ==
    /\ pc = "idle"
    /\ inputs = Nil
    /\ plan = <<>>
    /\ children = <<>>
    /\ i = 0
    /\ gen = <<>>
    /\ j = 0
    /\ result = Nil
    /\ origin = <<>>
    /\ seen = Nil
    /\ ruleTab = [r \in RuleNames \ {"unquotePatterns"} |-> [b \in RuleBasics |-> Nil]]
    /\ rb = Nil
    /\ rl = <<>>
    /\ rpc = "none"
    /\ rchain = <<>>
    /\ rout = Nil
    /\ rbs = <<>>
    /\ rcalls = <<>>
    /\ ub = Nil
    /\ upc = "none"
    /\ uraw = <<>>
    /\ unew = <<>>
    /\ uchanged = FALSE
    /\ unodes = <<>>
    /\ uout = Nil
    /\ ufault = "none"
    /\ uerr = "none"
    /\ cframe \in [Callers -> {Frame(p) : p \in ConcPlans}]
    /\ ccell = [x \in Cells |-> FALSE]
    /\ ScopesIdle
    /\ SyncIdle

\* the next Basic of the second loop, child being the generated unit if any
NextBasic(f, cs) == [f EXCEPT !.children = f.children \o cs, !.i = f.i + 1, !.pc = "outer"]

\* one iteration of the first loop
ConcFirstLoop(c) ==
    LET f == cframe[c] IN
    /\ f.pc = "first"
    /\ f.i <= Len(f.plan)
    /\ LET child == NewBasicJob(ConcInputs(c), f.plan[f.i]) IN
       cframe' = [cframe EXCEPT ![c] =
           IF child = Err THEN [f EXCEPT !.pc = "panic TODO"]
           ELSE [f EXCEPT !.children = AppendChild(f.children, child.job),
                          !.i = f.i + 1]]
    /\ UNCHANGED <<expandVars, ruleVars, unquoteVars, scopeVars, syncVars, ccell>>

ConcFirstLoopEnd(c) ==
    LET f == cframe[c] IN
    /\ f.pc = "first"
    /\ f.i > Len(f.plan)
    /\ cframe' = [cframe EXCEPT ![c] = [f EXCEPT !.i = 1, !.pc = "outer"]]
    /\ UNCHANGED <<expandVars, ruleVars, unquoteVars, scopeVars, syncVars, ccell>>

\* the second loop reaches plan[i]: applyRulesList reads rulesList, applyRules
\* calls unquotePatterns, which parses and sets changed := false
ConcParse(c) ==
    LET f == cframe[c] IN
    /\ f.pc = "outer"
    /\ f.i <= Len(f.plan)
    /\ rulesList = << <<"unquotePatterns">> >>
    /\ LET r == ParseRegex(StringHuman(ToParseTree(f.plan[f.i]))) IN
       IF r = Err
       THEN /\ cframe' = [cframe EXCEPT ![c] = NextBasic(f, <<>>)]
            /\ UNCHANGED ccell
       ELSE /\ cframe' = [cframe EXCEPT ![c] =
                   [f EXCEPT !.tree = r.nodes, !.k = 1, !.pc = "map"]]
            /\ ccell' = [ccell EXCEPT ![ChangedCell(c)] = FALSE]
    /\ UNCHANGED <<expandVars, ruleVars, unquoteVars, scopeVars, syncVars>>

\* MapPattern reaches node k of the tree: the callback runs on a pattern
ConcCallback(c) ==
    LET f == cframe[c]
        n == f.tree[f.k]
    IN
    /\ f.pc = "map"
    /\ f.k <= Len(f.tree)
    /\ cframe' = [cframe EXCEPT ![c] =
           [f EXCEPT !.k = f.k + 1,
                     !.tree[f.k] = IF n.kind = "Pattern"
                                   THEN unquoteCallback(n.value, n.negated, n.labels)
                                   ELSE n]]
    /\ ccell' = IF n.kind = "Pattern" /\ "Quoted" \in n.labels
                THEN [ccell EXCEPT ![ChangedCell(c)] = TRUE]
                ELSE ccell
    /\ UNCHANGED <<expandVars, ruleVars, unquoteVars, scopeVars, syncVars>>

\* if !changed { return nil }, and the rest of the iteration: the new Basic,
\* if there is one, gives a child
ConcCheck(c) ==
    LET f == cframe[c]
        g == [f EXCEPT !.raced =
                 \E d \in Callers \ {c} :
                     cframe[d].pc = "map" /\ ccell[ChangedCell(d)]]
        newNodes == SequenceLiteral(f.tree)
        newBasic == IF newNodes = Err THEN Err ELSE ToBasicQuery(newNodes.nodes)
        child == IF newBasic = Err THEN Err
                 ELSE NewBasicJob(ConcInputs(c), newBasic.basic)
    IN
    /\ f.pc = "map"
    /\ f.k > Len(f.tree)
    /\ cframe' = [cframe EXCEPT ![c] =
           IF ~ccell[ChangedCell(c)] \/ newBasic = Err THEN NextBasic(g, <<>>)
           ELSE IF child = Err THEN [g EXCEPT !.pc = "panic generated"]
           ELSE NextBasic(g, <<child.job>>)]
    /\ UNCHANGED <<expandVars, ruleVars, unquoteVars, scopeVars, syncVars, ccell>>

\* return NewSequentialJob(true, children...)
ConcReturn(c) ==
    LET f == cframe[c] IN
    /\ f.pc = "outer"
    /\ f.i > Len(f.plan)
    /\ cframe' = [cframe EXCEPT ![c] =
           [f EXCEPT !.result = ReturnedJob(f.children), !.pc = "done"]]
    /\ UNCHANGED <<expandVars, ruleVars, unquoteVars, scopeVars, syncVars, ccell>>

NextConc ==
    \E c \in Callers :
        \/ ConcFirstLoop(c)
        \/ ConcFirstLoopEnd(c)
        \/ ConcParse(c)
        \/ ConcCallback(c)
        \/ ConcCheck(c)
        \/ ConcReturn(c)

SpecConc == InitConc /\ [][NextConc]_vars

\* the children a call makes when it runs alone
ChildrenAlone(in, p) ==
    Units(in, p) \o
    Units(in, Flatten([k \in 1..Len(p) |-> applyRulesList(p[k], rulesList)]))

\* C18: whatever the interleaving of the callers, each call returns the
\* composite of the children it makes when it runs alone.
C18_NoInterference ==
    \A c \in Callers :
        cframe[c].pc = "done" =>
            /\ cframe[c].result # Nil
            /\ cframe[c].result.children = ChildrenAlone(ConcInputs(c), cframe[c].plan)

\* a caller that got no generated unit for a Basic without quotes, its test of
\* changed made while another caller, on another plan, had set its own
C18_Witness ==
    \E c \in Callers, d \in Callers :
        /\ c # d
        /\ cframe[c].pc = "done"
        /\ cframe[c].raced
        /\ cframe[c].plan = <<BPlain>>
        /\ Len(cframe[c].result.children) = 1
        /\ cframe[d].plan # cframe[c].plan

----------------------------------------------------------------------------
(* Claims on the order of construction and rule application, under Spec *)

\* every Basic of the plan has its unit among the children, in plan order
AllOriginalsBuilt ==
    /\ Len(children) >= Len(plan)
    /\ \A k \in 1..Len(plan) :
          /\ Constructs(inputs, plan[k])
          /\ children[k] = Unit(inputs, plan[k])
          /\ origin[k] = [kind |-> "original", src |-> k]

\* C21: a step that applies the rules to a Basic is taken only when the unit
\* of every Basic of the plan has been constructed, and a call that panics on
\* a Basic of the plan has applied no rule and built no generated unit.
C21_OriginalsBeforeRules ==
    [][/\ (pc = "outer" /\ pc' = "inner") => AllOriginalsBuilt
       /\ pc' = "panic TODO" =>
             /\ gen' = <<>>
             /\ \A p \in 1..Len(origin') : origin'[p].kind = "original"]_vars

\* the rules just applied to the first of two Basics, both units built
C21_Witness ==
    /\ pc = "inner"
    /\ i = 1
    /\ Len(plan) = 2
    /\ Len(children) = 2
    /\ gen # <<>>
    /\ AllOriginalsBuilt

----------------------------------------------------------------------------
(* unquotePatterns on its own output, under SpecUnquote *)

\* a value that reads as a quoted string
InQuotes(v) == Len(v) >= 2 /\ v[1] = "dq" /\ ClosingQuote(v, 2) = Len(v)

LiteralInQuotes(b) ==
    \E k \in 1..Len(b.pattern) :
        "Literal" \in b.pattern[k].labels /\ InQuotes(b.pattern[k].value)

\* C22, as the specification words it: unquotePatterns returns nil on every
\* Basic it returned.
C22_InapplicableOnOutput ==
    (upc = "returned" /\ uout # Nil) => unquotePatterns(uout) = Nil

\* C22, amended: unquotePatterns returns nil on a Basic it returned, unless a
\* Literal pattern of that Basic has a value that is itself in quotes.
C22_InapplicableUnlessInQuotes ==
    (upc = "returned" /\ uout # Nil /\ ~LiteralInQuotes(uout)) =>
        unquotePatterns(uout) = Nil

\* a Basic returned with a quote character in an unquoted value, that parses
\* again, and on which unquotePatterns returns nil
C22_Witness ==
    /\ upc = "returned"
    /\ uout # Nil
    /\ \E k \in 1..Len(uout.pattern) :
          /\ uout.pattern[k].labels = {"Literal"}
          /\ \E n \in 1..Len(uout.pattern[k].value) : uout.pattern[k].value[n] = "dq"
    /\ ~LiteralInQuotes(uout)
    /\ ParseRegex(StringHuman(ToParseTree(uout))) # Err
    /\ unquotePatterns(uout) = Nil

\* the text "\"a\"" in quotes, unquoted once: "a" in quotes, unquoted again: a
C22_NestedQuotes ==
    /\ upc = "returned"
    /\ ub.pattern[1] = Pattern(VNestedQuotes, FALSE, {"Literal"})
    /\ uout # Nil
    /\ uout.pattern[1] = Pattern(VQuotedA, FALSE, {"Literal"})
    /\ unquotePatterns(uout) # Nil
    /\ unquotePatterns(uout).pattern[1] = Pattern(VA, FALSE, {"Literal"})

----------------------------------------------------------------------------
(* The empty plan, under Spec *)

\* C23: a call with an empty plan goes through both loops without an
\* iteration: it does not panic, applies no rule, builds no child, and returns
\* the sequential composite of no children.
C23_EmptyPlan ==
    (pc # "idle" /\ plan = <<>>) =>
        /\ pc \in {"first", "outer", "done"}
        /\ children = <<>>
        /\ origin = <<>>
        /\ gen = <<>>
        /\ j = 0
        /\ pc = "done" => result = NewSequentialJob(TRUE, <<>>)

\* the composite returned for the empty plan
C23_Witness ==
    /\ pc = "done"
    /\ plan = <<>>
    /\ inputs \in Inputs
    /\ result # Nil
    /\ result.kind = "sequential"
    /\ result.children = <<>>

----------------------------------------------------------------------------
(* GrantedScopes and its cache *)

Tokens == {"", "t1", "t2", "t3"}

\* hashToken: the hexadecimal text of the 32-bit FNV hash of the token, a
\* function of the token alone, and not a one-to-one function: t2 and t3 are
\* two tokens with the same hash
hashToken(token) ==
    IF token = "" THEN "811c9dc5" ELSE IF token = "t1" THEN "k1" ELSE "k2"

Keys == {hashToken(t) : t \in Tokens}

\* strings.Join(scopes, ",")
RECURSIVE JoinComma(_)
JoinComma(scopes) ==
    IF scopes = <<>> THEN <<>>
    ELSE IF Len(scopes) = 1 THEN scopes[1]
    ELSE scopes[1] \o <<",">> \o JoinComma(Tail(scopes))

\* strings.Split(text, ","): the pieces between the commas, one piece for a
\* text without comma, the empty text included
RECURSIVE SplitComma(_)
SplitComma(text) ==
    IF \A k \in 1..Len(text) : text[k] # ","
    THEN <<text>>
    ELSE LET k == CHOOSE n \in 1..Len(text) :
                      text[n] = "," /\ \A m \in 1..(n - 1) : text[m] # ","
         IN  <<SubSeq(text, 1, k - 1)>> \o SplitComma(SubSeq(text, k + 1, Len(text)))

\* ScopeCache as a map: Get gives the bytes and ok, Set stores the bytes
NoEntry == [ok |-> FALSE, bytes |-> <<>>]

cacheSetNothing(cache, key, bytes) == cache

cacheSet(cache, key, bytes) == [cache EXCEPT ![key] = [ok |-> TRUE, bytes |-> bytes]]

\* ok && len(result) > 0
CacheHit(entry) == entry.ok /\ Len(entry.bytes) > 0

\* what a call returns and does: the result, the cache after it, whether the
\* code host was asked
Returned(svc, scopes, isnil, err, path, cache, requested) ==
    [last |-> [svc |-> svc, scopes |-> scopes, isnil |-> isnil, err |-> err,
               path |-> path, requested |-> requested],
     cache |-> cache]

\* GrantedScopes(ctx, cache, db, svc), srcOk and slowOk telling whether
\* NewSource and NewGithubSource / NewGitLabSource succeed, resp what the
\* code host answers
GrantedScopes(cache, svc, srcOk, slowOk, resp) ==
    IF svc.siteOwned \/ svc.kind \notin {"GITHUB", "GITLAB"}
    THEN Returned(svc, <<>>, TRUE, "none", "skip", cache, FALSE)
    ELSE IF ~srcOk
    THEN Returned(svc, <<>>, TRUE, "creating source", "precheck", cache, FALSE)
    ELSE IF svc.kind = "GITLAB" /\ svc.tokenType # "oauth"
    THEN Returned(svc, <<>>, TRUE, "not an oauth token", "precheck", cache, FALSE)
    ELSE IF svc.token = ""
    THEN Returned(svc, <<>>, TRUE, "missing token", "precheck", cache, FALSE)
    ELSE
    LET key == hashToken(svc.token) IN
    IF CacheHit(cache[key])
    THEN Returned(svc, SplitComma(cache[key].bytes), FALSE, "none", "cached", cache, FALSE)
    ELSE IF ~slowOk
    THEN Returned(svc, <<>>, TRUE, "creating source", "slow", cache, FALSE)
    ELSE IF resp = Err
    THEN Returned(svc, <<>>, TRUE, "getting scopes", "slow", cache, TRUE)
    ELSE Returned(svc, resp.scopes, FALSE, "none", "slow",
                  cacheSet(cache, key, JoinComma(resp.scopes)), TRUE)

\* the scope lists a code host grants
ScopeLists ==
    {<<>>, << <<>> >>, << <<"r">> >>, << <<"r">>, <<"u">> >>, << <<"r", ",", "u">> >>}

Service(kind, siteOwned, token, tokenType) ==
    [kind |-> kind, siteOwned |-> siteOwned, token |-> token, tokenType |-> tokenType]

\* GitHub and GitLab services of a user or an organisation with each token, a
\* GitLab service whose token is not an OAuth token, a service of the site,
\* a service of another kind
Services ==
    {Service("GITHUB", FALSE, t, "pat") : t \in Tokens} \cup
    {Service("GITLAB", FALSE, t, "oauth") : t \in Tokens} \cup
    {Service("GITLAB", FALSE, "t1", "pat"), Service("GITHUB", TRUE, "t1", "pat"),
     Service("BITBUCKETSERVER", FALSE, "t1", "pat")}

\* what happens around a call: NewSource fails, or the source of the slow
\* path fails, or the code host answers with an error or a scope list
Environments ==
    {[srcOk |-> FALSE, slowOk |-> TRUE, resp |-> Err],
     [srcOk |-> TRUE, slowOk |-> FALSE, resp |-> Err]} \cup
    {[srcOk |-> TRUE, slowOk |-> TRUE, resp |-> r] :
        r \in {Err} \cup {[scopes |-> l] : l \in ScopeLists}}

InitScopes ==
    /\ pc = "idle"
    /\ inputs = Nil
    /\ plan = <<>>
    /\ children = <<>>
    /\ i = 0
    /\ gen = <<>>
    /\ j = 0
    /\ result = Nil
    /\ origin = <<>>
    /\ seen = Nil
    /\ ruleTab = [r \in RuleNames \ {"unquotePatterns"} |-> [b \in RuleBasics |-> Nil]]
    /\ rb = Nil
    /\ rl = <<>>
    /\ rpc = "none"
    /\ rchain = <<>>
    /\ rout = Nil
    /\ rbs = <<>>
    /\ rcalls = <<>>
    /\ ub = Nil
    /\ upc = "none"
    /\ uraw = <<>>
    /\ unew = <<>>
    /\ uchanged = FALSE
    /\ unodes = <<>>
    /\ uout = Nil
    /\ ufault = "none"
    /\ uerr = "none"
    /\ cframe = <<>>
    /\ ccell = <<>>
    /\ gcache = [k \in Keys |-> NoEntry]
    /\ gslow = [t \in Tokens |-> Nil]
    /\ glast = Nil
    /\ SyncIdle

\* one call of GrantedScopes
CallGrantedScopes ==
    \E svc \in Services, env \in Environments :
        LET r == GrantedScopes(gcache, svc, env.srcOk, env.slowOk, env.resp) IN
        /\ gcache' = r.cache
        /\ glast' = r.last
        /\ gslow' = IF r.last.path = "slow" /\ r.last.err = "none"
                    THEN [gslow EXCEPT ![svc.token] = [scopes |-> r.last.scopes]]
                    ELSE gslow
        /\ UNCHANGED <<expandVars, ruleVars, unquoteVars, concVars, syncVars>>

NextScopes == CallGrantedScopes

SpecScopes == InitScopes /\ [][NextScopes]_vars

----------------------------------------------------------------------------
(* Claims on GrantedScopes, under SpecScopes *)

\* the call reached the look-up of the cache: a GitHub or GitLab service of a
\* user or an organisation, its source created, its token present and of the
\* right type
LookedUp(last) == last.path \in {"cached", "slow"}

\* a failed slow path leaves the cache as it was
FailedSlowPathKeepsCache ==
    (glast'.path = "slow" /\ glast'.err # "none") => gcache' = gcache

\* the call is answered from the cache with the scopes of the slow path
FromCache(last, scopes) ==
    /\ last.path = "cached"
    /\ ~last.requested
    /\ last.err = "none"
    /\ last.scopes = scopes

\* C24, as the specification words it: once a slow path succeeded for a
\* token, every later call with that token is answered from the cache with
\* the same scopes and without a request, whatever the scopes; a failed slow
\* path leaves the cache unchanged.
C24_CachedAfterSlowPath ==
    [][/\ FailedSlowPathKeepsCache
       /\ (LookedUp(glast') /\ gslow[glast'.svc.token] # Nil) =>
             FromCache(glast', gslow[glast'.svc.token].scopes)]_vars

\* a scope list that comes back from the cache as it went in
Servable(scopes) ==
    /\ JoinComma(scopes) # <<>>
    /\ \A n \in 1..Len(scopes) : \A k \in 1..Len(scopes[n]) : scopes[n][k] # ","

\* C24, amended: once a slow path succeeded for a token with a scope list
\* whose joined text is not empty and whose scopes hold no comma, every later
\* call with that token that reaches the look-up is answered from the cache
\* with the same scopes and without a request; a failed slow path leaves the
\* cache unchanged.
C24_CachedAfterServableSlowPath ==
    [][/\ FailedSlowPathKeepsCache
       /\ (LookedUp(glast') /\ gslow[glast'.svc.token] # Nil
              /\ Servable(gslow[glast'.svc.token].scopes)) =>
             FromCache(glast', gslow[glast'.svc.token].scopes)]_vars

\* a GitLab call answered from the cache with the two scopes of an earlier
\* slow path for the same token
C24_Witness ==
    /\ glast # Nil
    /\ glast.svc.kind = "GITLAB"
    /\ gslow[glast.svc.token] # Nil
    /\ Len(gslow[glast.svc.token].scopes) = 2
    /\ FromCache(glast, gslow[glast.svc.token].scopes)

\* a call that found the empty scope list of an earlier slow path stored under
\* its key, took the slow path again and failed there
C24_EmptyListSlowAgain ==
    /\ glast # Nil
    /\ glast.path = "slow"
    /\ glast.err # "none"
    /\ gslow[glast.svc.token] = [scopes |-> <<>>]
    /\ gcache[hashToken(glast.svc.token)] = [ok |-> TRUE, bytes |-> <<>>]

----------------------------------------------------------------------------
(* RateLimitSyncer.SyncRateLimiters, called with no IDs *)

\* what extsvc.ExtractRateLimit gives for the configuration and kind of a
\* service: a limit, ErrRateLimitUnsupported, or another error
RateConfigs == {"limit", "unsupported", "invalid"}

\* the sets of external services: service n has the ID n
ServiceSets ==
    UNION {[1..n -> RateConfigs] : n \in 0..MaxServices}

ExternalService(id, cfg) == [id |-> id, cfg |-> cfg]

\* serviceLister.List with no IDs and the cursor: at most limit services from
\* offset on, in the order of the lister
List(db, offset, limit) ==
    [k \in 1..(IF Len(db) - offset > limit THEN limit
               ELSE IF Len(db) - offset > 0 THEN Len(db) - offset ELSE 0) |->
        db[offset + k]]

NextOffsetStays(offset, n) == offset

\* cursor.Offset += len(services)
NextOffset(offset, n) == offset + n

\* svc.URN(): one for each service
URN(svc) == svc.id

InitSync ==
    /\ pc = "idle"
    /\ inputs = Nil
    /\ plan = <<>>
    /\ children = <<>>
    /\ i = 0
    /\ gen = <<>>
    /\ j = 0
    /\ result = Nil
    /\ origin = <<>>
    /\ seen = Nil
    /\ ruleTab = [r \in RuleNames \ {"unquotePatterns"} |-> [b \in RuleBasics |-> Nil]]
    /\ rb = Nil
    /\ rl = <<>>
    /\ rpc = "none"
    /\ rchain = <<>>
    /\ rout = Nil
    /\ rbs = <<>>
    /\ rcalls = <<>>
    /\ ub = Nil
    /\ upc = "none"
    /\ uraw = <<>>
    /\ unew = <<>>
    /\ uchanged = FALSE
    /\ unodes = <<>>
    /\ uout = Nil
    /\ ufault = "none"
    /\ uerr = "none"
    /\ cframe = <<>>
    /\ ccell = <<>>
    /\ ScopesIdle
    /\ \E cfgs \in ServiceSets :
           /\ sdb = [n \in 1..Len(cfgs) |-> ExternalService(n, cfgs[n])]
           /\ sregistry = [n \in 1..Len(cfgs) |-> "unset"]
           /\ sseen = [n \in 1..Len(cfgs) |-> 0]
    /\ spc = "list"
    /\ soffset = 0
    /\ spage = <<>>
    /\ sk = 0
    /\ sret = "none"
    /\ slisted = <<>>

\* services, err := r.serviceLister.List(...), and what follows up to the
\* inner loop
SyncList ==
    /\ spc = "list"
    /\ \E fails \in BOOLEAN :
           LET services == List(sdb, soffset, SyncLimit) IN
           IF fails
           THEN /\ sret' = "listing external services"
                /\ spc' = "done"
                /\ UNCHANGED <<soffset, spage, sk, slisted>>
           ELSE /\ slisted' = Append(slisted, [offset |-> soffset, limit |-> SyncLimit,
                                                got |-> Len(services)])
                /\ IF Len(services) = 0
                   THEN /\ sret' = "nil"
                        /\ spc' = "done"
                        /\ UNCHANGED <<soffset, spage, sk>>
                   ELSE /\ soffset' = NextOffset(soffset, Len(services))
                        /\ spage' = services
                        /\ sk' = 1
                        /\ spc' = "svc"
                        /\ UNCHANGED sret
    /\ UNCHANGED <<expandVars, ruleVars, unquoteVars, concVars, scopeVars,
                   sdb, sregistry, sseen>>

\* one iteration of the loop over services
SyncService ==
    /\ spc = "svc"
    /\ sk <= Len(spage)
    /\ LET svc == spage[sk] IN
       /\ sseen' = [sseen EXCEPT ![svc.id] = @ + 1]
       /\ IF svc.cfg = "unsupported"
          THEN /\ sk' = sk + 1
               /\ UNCHANGED <<sregistry, sret, spc>>
          ELSE IF svc.cfg = "invalid"
          THEN /\ sret' = "getting rate limit configuration"
               /\ spc' = "done"
               /\ UNCHANGED <<sregistry, sk>>
          ELSE /\ sregistry' = [sregistry EXCEPT ![URN(svc)] = svc.cfg]
               /\ sk' = sk + 1
               /\ UNCHANGED <<sret, spc>>
    /\ UNCHANGED <<expandVars, ruleVars, unquoteVars, concVars, scopeVars,
                   sdb, soffset, spage, slisted>>

\* if len(services) < int(r.limit) { break }, after the inner loop
SyncPageEnd ==
    /\ spc = "svc"
    /\ sk > Len(spage)
    /\ IF Len(spage) < SyncLimit
       THEN /\ sret' = "nil"
            /\ spc' = "done"
       ELSE /\ spc' = "list"
            /\ UNCHANGED sret
    /\ UNCHANGED <<expandVars, ruleVars, unquoteVars, concVars, scopeVars,
                   sdb, soffset, spage, sk, sregistry, sseen, slisted>>

NextSync ==
    \/ SyncList
    \/ SyncService
    \/ SyncPageEnd

SpecSync == InitSync /\ [][NextSync]_vars

\* the call is run to its end: a goroutine that can take a step takes it
FairSpecSync == SpecSync /\ WF_vars(NextSync)

----------------------------------------------------------------------------
(* Claims on SyncRateLimiters, under FairSpecSync *)

\* the pages asked for so far: each of SyncLimit services, from where the page
\* before ended, every page but the last one full
PagesInOrder ==
    \A k \in 1..Len(slisted) :
        /\ slisted[k].limit = SyncLimit
        /\ slisted[k].offset = (k - 1) * SyncLimit
        /\ k < Len(slisted) => slisted[k].got = SyncLimit

\* what holds when SyncRateLimiters has returned nil
SyncedAll ==
    /\ Len(slisted) >= 1
    /\ slisted[Len(slisted)].got < SyncLimit
    /\ \A n \in 1..Len(sdb) :
          /\ sseen[n] = 1
          /\ sdb[n].cfg # "invalid"
          /\ sdb[n].cfg = "limit" => sregistry[URN(sdb[n])] = "limit"
          /\ sdb[n].cfg = "unsupported" => sregistry[URN(sdb[n])] = "unset"

SyncSafe ==
    /\ PagesInOrder
    /\ \A n \in 1..Len(sdb) : sseen[n] <= 1
    /\ (spc = "done" /\ sret = "nil") => SyncedAll

\* C25: SyncRateLimiters with no IDs returns; it asks for pages of SyncLimit
\* services at increasing offsets and stops at the first page that is empty
\* or short; no service is taken twice, and when it returns nil every service
\* was taken once, the limiter of every service with a rate limit is set and
\* only the services without support for rate limits were skipped.
C25_SyncsEveryServiceOnce ==
    []SyncSafe /\ <>(spc = "done")

\* nil returned after a full page and an empty one, a limiter set and a
\* service skipped
C25_Witness ==
    /\ spc = "done"
    /\ sret = "nil"
    /\ Len(sdb) = SyncLimit
    /\ Len(slisted) = 2
    /\ slisted[2].got = 0
    /\ \E n \in 1..Len(sdb) : sregistry[n] = "limit"
    /\ \E n \in 1..Len(sdb) : sdb[n].cfg = "unsupported" /\ sseen[n] = 1

====
